---- MODULE Spec2Model ----
(***************************************************************************)
(* The orchestration engine of gittyai (orchestrator/orchestrator.go):     *)
(* Kickoff and its three execution strategies, with the task and agent     *)
(* operations they call.                                                   *)
(*                                                                         *)
(* Strings are sequences of one-character strings, so that trimming, case  *)
(* folding and substring search are computed and not assumed.  Loop        *)
(* indices are 0-based as in the Go code; sequences are 1-based, so task i *)
(* is o.tasks[i + 1].                                                      *)
(***************************************************************************)
EXTENDS Integers, Sequences, FiniteSets, TLC

VARIABLES
    project,        \* the config.Project the orchestrator is built from, if any
    cfg,            \* the Config handed to New
    o,              \* the Orchestrator built by New(cfg)
    ctxDone,        \* whether ctx.Done() is closed
    pc,             \* position of the goroutine that called Kickoff
    i,              \* loop index of the running strategy (0-based)
    results,        \* the strategy's local results slice (its backing array)
    cur,            \* the task handed to the executeTask call in flight
    ret,            \* what Kickoff returned: [results, isNil, err], at return time
    unit,           \* parallel mode: position of the goroutine launched for each index
    unitOut,        \* parallel mode: what executeTask returned to each goroutine
    mu,             \* parallel mode: holder of the mutex (a set of at most one index)
    wg,             \* parallel mode: the WaitGroup counter
    errs,           \* parallel mode: the shared error list
    plan,           \* goal mode: the parsed execution plan
    previousResults,\* goal mode: the running context accumulator
    allocs,         \* number of Task values allocated by the engine so far
    execCount,      \* history: per task/step index, executeTask calls issued
    execOk,         \* history: indices whose executeTask returned a result
    execBy,         \* history: per index, the agent that Task.Execute ran on
    execErr,        \* history: per index, the error Task.Execute returned
    agentCalls,     \* history: per index, calls of Agent.Execute
    mgrCount,       \* history: per task index, selection calls to the manager
    planCalls,      \* history: planning calls to the manager
    response,       \* the manager's latest reply (selectAgentForTask's local)
    output          \* what the caller got from FormatResults, once it called it

vars == <<project, cfg, o, ctxDone, pc, i, results, cur, ret, unit, unitOut, mu, wg, errs,
          plan, previousResults, allocs, execCount, execOk, execBy, execErr,
          agentCalls, mgrCount, planCalls, response, output>>

----------------------------------------------------------------------------
(* Bounds of the model *)

MaxTasks == 3

----------------------------------------------------------------------------
(* Process, orchestrator.go:17-28 *)

processUnset == 0
Sequential == 1
Parallel == 2
Hierarchical == 3
\* a Process value outside the declared constants (Process is an int)
ProcessValues == 0 .. 4

----------------------------------------------------------------------------
(* Strings *)

ToLowerCh(c) ==
    CASE c = "B" -> "b"
      [] c = "O" -> "o"
      [] c = "T" -> "t"
      [] c = "C" -> "c"
      [] OTHER -> c

\* strings.ToLower
ToLower(s) == [k \in 1 .. Len(s) |-> ToLowerCh(s[k])]

\* strings.EqualFold (on the ASCII letters of the model)
EqualFold(s, t) == ToLower(s) = ToLower(t)

\* strings.Contains
Contains(s, sub) ==
    \E k \in 0 .. (Len(s) - Len(sub)) : SubSeq(s, k + 1, k + Len(sub)) = sub

IsSpace(c) == c \in {" ", "\n", "\t"}

RECURSIVE TrimLeft(_)
TrimLeft(s) ==
    IF s # <<>> /\ IsSpace(Head(s)) THEN TrimLeft(Tail(s)) ELSE s

RECURSIVE TrimRight(_)
TrimRight(s) ==
    IF s # <<>> /\ IsSpace(s[Len(s)]) THEN TrimRight(SubSeq(s, 1, Len(s) - 1)) ELSE s

\* strings.TrimSpace
TrimSpace(s) == TrimRight(TrimLeft(s))

Digits == <<"1", "2", "3", "4", "5", "6", "7", "8", "9">>

----------------------------------------------------------------------------
(* Agents and tasks *)

\* a nil *agent.Agent
NilAgent == [nil |-> TRUE]

\* agent.New: an Agent with the given name (role, goal, backstory only feed prompts)
Agent(name) == [Name |-> name]

Bot == Agent(<<"b", "o", "t">>)
Chatbot == Agent(<<"c", "h", "a", "t", "b", "o", "t">>)

\* task.New: a Task at address ptr
Task(ptr, desc, expected, agent) ==
    [ptr |-> ptr, Description |-> desc, ExpectedOutput |-> expected, Agent |-> agent]

\* mutant: the agent is set on the task itself
WithAgentInPlace(t, a, ptr) == [t EXCEPT !.Agent = a]

\* Task.WithAgent: a copy of t at a fresh address, bound to a
WithAgent(t, a, ptr) == [t EXCEPT !.ptr = ptr, !.Agent = a]

\* a nil *TaskResult (an unset slot)
NilResult == [nil |-> TRUE]

\* the text an agent generates
Generated == <<"o", "k">>

\* mutant: the Agent field is left empty
TaskResultWithoutAgent(t) == [Task |-> t, Result |-> Generated, Agent |-> <<>>]

\* the &TaskResult{...} built by executeTask after a successful Execute
TaskResult(t) == [Task |-> t, Result |-> Generated, Agent |-> t.Agent.Name]

\* Task.Execute: a validation error when no agent is bound; otherwise the
\* agent's model call succeeds or fails
ExecOutcomes(t) == IF t.Agent = NilAgent THEN {"fail"} ELSE {"ok", "fail"}

\* mutant: the agent is called before the check for a bound agent
CallsAgentAlways(t) == 1

\* Task.Execute: the number of calls of t.Agent.Execute it makes
CallsAgent(t) == IF t.Agent = NilAgent THEN 0 ELSE 1

----------------------------------------------------------------------------
(* Errors and return values *)

NoErr == [kind |-> "nil"]
\* ctx.Err()
CtxErr == [kind |-> "context canceled"]
\* fmt.Errorf("task %d failed: %w", i, err)
TaskFailed(idx) == [kind |-> "task failed", index |-> idx]
\* errors.Join(errs...)
Joined(es) == [kind |-> "join", errs |-> es]
\* fmt.Errorf("unknown process type: %v", o.process)
UnknownProcess == [kind |-> "unknown process type"]

NotReturned == [returned |-> FALSE]
Return(res, err) == [results |-> res, isNil |-> FALSE, err |-> err]
ReturnNil(err) == [results |-> <<>>, isNil |-> TRUE, err |-> err]

\* errors.Validationf("task '%s' has no agent assigned", t.Description)
NoAgentAssigned(t) ==
    [kind |-> "validation",
     msg |-> <<"task '">> \o t.Description \o <<"' has no agent assigned">>]

\* errors.Wrap(errors.ErrInternal, "task execution failed", err)
ExecutionFailed == [kind |-> "internal", msg |-> <<"task execution failed">>]

\* Task.Execute: the error it returns with the given outcome
ExecuteErr(t, out) ==
    IF out = "ok" THEN NoErr
    ELSE IF t.Agent = NilAgent THEN NoAgentAssigned(t)
    ELSE ExecutionFailed

----------------------------------------------------------------------------
(* Configurations *)

TaskAgents == {NilAgent, Chatbot}

InputTask(k, a) ==
    Task(k, <<"T", Digits[k]>>, IF k % 2 = 0 THEN <<"e">> ELSE <<>>, a)

TaskLists ==
    UNION {{[k \in 1 .. n |-> InputTask(k, f[k])] : f \in [1 .. n -> TaskAgents]}
           : n \in 0 .. MaxTasks}

Rosters == {<<>>, <<Bot, Chatbot>>, <<Chatbot, Bot>>}

Goals == {<<>>, <<"g">>}

\* Sequential and Parallel never read agents, managerLLM or goal: one value
\* of each is enough there; Hierarchical gets every combination
Configs ==
    {[Agents |-> <<Bot, Chatbot>>, Tasks |-> ts, Process |-> p,
      ManagerLLM |-> FALSE, Goal |-> <<>>, Verbose |-> FALSE]
        : ts \in TaskLists, p \in ProcessValues \ {Hierarchical}}
    \cup
    {[Agents |-> as, Tasks |-> ts, Process |-> Hierarchical,
      ManagerLLM |-> m, Goal |-> g, Verbose |-> FALSE]
        : as \in Rosters, ts \in TaskLists, m \in BOOLEAN, g \in Goals}

\* the orchestrator is constructed through the API, not from a config.Project
NoProject == [none |-> TRUE]

\* the values of the process field of a project file: the three documented
\* ones, and "" for a file that leaves it out
ProcessNames == {"sequential", "parallel", "hierarchical", ""}

\* config.Project, as far as Builder.Build reads its Execution
Projects ==
    {NoProject} \cup {[Execution |-> [Process |-> name]] : name \in ProcessNames}

\* Builder.Build: the switch on b.project.Execution.Process
BuildProcess(name) == IF name = "parallel" THEN Parallel ELSE Sequential

\* Builder.Build: the orchestrator.Config handed to orchestrator.New
Build(proj, agents, tasks) ==
    [Agents |-> agents, Tasks |-> tasks, Process |-> BuildProcess(proj.Execution.Process),
     ManagerLLM |-> FALSE, Goal |-> <<>>, Verbose |-> FALSE]

\* Builder.BuildTasks binds every task to an agent of the project
BuiltConfigs(proj) ==
    {Build(proj, <<Bot, Chatbot>>, ts) :
        ts \in {l \in TaskLists : \A k \in 1 .. Len(l) : l[k].Agent # NilAgent}}

\* the JSON objects a manager reply may hold, each one token of the reply
ObjTokens == {"A", "B", "AX"}

\* the PlanStep an object decodes to
StepOf(tok) ==
    IF tok = "A"
      THEN [TaskDescription |-> <<"A">>, AgentName |-> <<"C", "h", "a", "t", "b", "o", "t">>,
            ExpectedOutput |-> <<>>, UseContext |-> FALSE]
    ELSE IF tok = "AX"
      THEN [TaskDescription |-> <<"A">>, AgentName |-> <<"X">>,
            ExpectedOutput |-> <<>>, UseContext |-> FALSE]
      ELSE [TaskDescription |-> <<"B">>, AgentName |-> <<"X">>,
            ExpectedOutput |-> <<"e">>, UseContext |-> TRUE]

\* what the manager model may answer to the planning prompt: tokens are "[",
\* "]", ",", an object, or a character of prose
PlanReplies ==
    {<<"p", "[", "A", ",", "B", "]", "p">>,
     <<"[", "B", ",", "A", "]">>,
     <<"[", "B", ",", "B", "]">>,
     <<"p", "[", "A", "]">>,
     <<"p", "p", "[", "AX", "]">>,
     <<"[", "A", "]", "p", "]">>,
     <<"[", "]">>,
     <<"p", "p">>,
     <<"[", "A", ",", "B">>,
     <<"[", "[", "A", "]", "]">>,
     <<"[", "A", ",", "]">>}

\* mutant: an unset Process is kept
NewKeepsUnset(c) ==
    [agents |-> c.Agents,
     tasks |-> c.Tasks,
     process |-> c.Process,
     managerLLM |-> c.ManagerLLM,
     goal |-> c.Goal,
     verbose |-> c.Verbose]

\* New
New(c) ==
    [agents |-> c.Agents,
     tasks |-> c.Tasks,
     process |-> IF c.Process = processUnset THEN Sequential ELSE c.Process,
     managerLLM |-> c.ManagerLLM,
     goal |-> c.Goal,
     verbose |-> c.Verbose]

\* FormatResults has not been called
NotFormatted == [formatted |-> FALSE]
\* the string FormatResults returned
Formatted(text) == [formatted |-> TRUE, text |-> text]

NTasks == Len(o.tasks)
\* indices of tasks and of plan steps (a plan has fewer steps than its reply has tokens)
Indices == {idx \in 0 .. 9 : idx < MaxTasks \/ \E r \in PlanReplies : idx < Len(r)}
\* the unlocked sync.Mutex: the set of its holders is empty
MuFree == {}

Init ==
    /\ project \in Projects
    /\ cfg \in (IF project = NoProject THEN Configs ELSE BuiltConfigs(project))
    /\ o = New(cfg)
    /\ ctxDone \in BOOLEAN
    /\ pc = "kickoff"
    /\ i = 0
    /\ results = <<>>
    /\ cur = NilResult
    /\ ret = NotReturned
    /\ unit = [idx \in 0 .. (Len(cfg.Tasks) - 1) |-> "idle"]
    /\ unitOut = [idx \in 0 .. (Len(cfg.Tasks) - 1) |-> "none"]
    /\ mu = MuFree
    /\ wg = 0
    /\ errs = <<>>
    /\ plan = <<>>
    /\ previousResults = <<>>
    /\ allocs = 0
    /\ execCount = [idx \in Indices |-> 0]
    /\ execOk = {}
    /\ execBy = [idx \in Indices |-> NilAgent]
    /\ execErr = [idx \in Indices |-> NoErr]
    /\ agentCalls = [idx \in Indices |-> 0]
    /\ mgrCount = [idx \in Indices |-> 0]
    /\ planCalls = 0
    /\ response = <<>>
    /\ output = NotFormatted

parVars == <<unit, unitOut, mu, wg, errs>>
goalVars == <<plan, previousResults>>
mgrVars == <<mgrCount, planCalls, response>>
histVars == <<execCount, execOk, execBy, execErr, agentCalls>>

----------------------------------------------------------------------------
(* The environment cancels the context *)

Cancel ==
    /\ ~ctxDone
    /\ pc # "returned"
    /\ ctxDone' = TRUE
    /\ UNCHANGED <<project, cfg, o, output, pc, i, results, cur, ret, parVars, goalVars, allocs,
                   histVars, mgrVars>>

----------------------------------------------------------------------------
(* executeTask, split at the blocking model call *)

\* the call t.Execute(ctx) is issued for index idx
IssueExec(idx, t) ==
    /\ cur' = t
    /\ execCount' = [execCount EXCEPT ![idx] = @ + 1]
    /\ execBy' = [execBy EXCEPT ![idx] = t.Agent]
    /\ agentCalls' = [agentCalls EXCEPT ![idx] = @ + CallsAgent(t)]
    /\ UNCHANGED <<execOk, execErr>>

----------------------------------------------------------------------------
(* Sequential strategy *)

\* mutant: the results collected so far are dropped on cancellation
SeqCancelledDropsResults(res) == Return(<<>>, CtxErr)

\* return results, ctx.Err()
SeqCancelled(res) == Return(res, CtxErr)

\* mutant: the error names the task by its 1-based position
SeqFailedOneBased(res, idx) == Return(res, TaskFailed(idx + 1))

\* return results, fmt.Errorf("task %d failed: %w", i, err)
SeqFailed(res, idx) == Return(res, TaskFailed(idx))

\* Kickoff, case Sequential: enter executeSequential
KickoffSequential ==
    /\ pc = "kickoff"
    /\ o.process = Sequential
    /\ results' = <<>>
    /\ i' = 0
    /\ IF NTasks = 0
         THEN pc' = "returned" /\ ret' = Return(<<>>, NoErr)
         ELSE pc' = "seq_check" /\ ret' = ret
    /\ UNCHANGED <<project, cfg, o, output, ctxDone, cur, parVars, goalVars, allocs, histVars, mgrVars>>

\* the select on ctx.Done() at the top of the loop body, then the call of executeTask
SeqCheck ==
    /\ pc = "seq_check"
    /\ IF ctxDone
         THEN /\ pc' = "returned"
              /\ ret' = SeqCancelled(results)
              /\ UNCHANGED <<cur, histVars>>
         ELSE /\ pc' = "seq_exec"
              /\ ret' = ret
              /\ IssueExec(i, o.tasks[i + 1])
    /\ UNCHANGED <<project, cfg, o, output, ctxDone, i, results, parVars, goalVars, allocs, mgrVars>>

\* mutant: a failed task is started again
SeqExecRetries ==
    /\ pc = "seq_exec"
    /\ \E out \in ExecOutcomes(cur) :
         /\ execErr' = [execErr EXCEPT ![i] = ExecuteErr(cur, out)]
         /\ IF out = "fail"
           THEN /\ pc' = "seq_check"
                /\ ret' = ret
                /\ UNCHANGED <<i, results, execOk>>
           ELSE /\ results' = Append(results, TaskResult(cur))
                /\ execOk' = execOk \cup {i}
                /\ i' = i + 1
                /\ IF i + 1 = NTasks
                     THEN pc' = "returned" /\ ret' = Return(results', NoErr)
                     ELSE pc' = "seq_check" /\ ret' = ret
    /\ UNCHANGED <<project, cfg, o, output, ctxDone, cur, parVars, goalVars, allocs, execCount,
                   execBy, agentCalls, mgrVars>>

\* mutant: the context is checked again when executeTask has returned
SeqExecChecksCtx ==
    /\ pc = "seq_exec"
    /\ \E out \in ExecOutcomes(cur) :
         /\ execErr' = [execErr EXCEPT ![i] = ExecuteErr(cur, out)]
         /\ IF out = "fail"
           THEN /\ pc' = "returned"
                /\ ret' = SeqFailed(results, i)
                /\ UNCHANGED <<i, results, execOk>>
           ELSE IF ctxDone
             THEN /\ pc' = "returned"
                  /\ ret' = SeqCancelled(results)
                  /\ execOk' = execOk \cup {i}
                  /\ UNCHANGED <<i, results>>
             ELSE /\ results' = Append(results, TaskResult(cur))
                  /\ execOk' = execOk \cup {i}
                  /\ i' = i + 1
                  /\ IF i + 1 = NTasks
                       THEN pc' = "returned" /\ ret' = Return(results', NoErr)
                       ELSE pc' = "seq_check" /\ ret' = ret
    /\ UNCHANGED <<project, cfg, o, output, ctxDone, cur, parVars, goalVars, allocs, execCount,
                   execBy, agentCalls, mgrVars>>

\* executeTask returns; the rest of the loop body
SeqExec ==
    /\ pc = "seq_exec"
    /\ \E out \in ExecOutcomes(cur) :
         /\ execErr' = [execErr EXCEPT ![i] = ExecuteErr(cur, out)]
         /\ IF out = "fail"
           THEN /\ pc' = "returned"
                /\ ret' = SeqFailed(results, i)
                /\ UNCHANGED <<i, results, execOk>>
           ELSE /\ results' = Append(results, TaskResult(cur))
                /\ execOk' = execOk \cup {i}
                /\ i' = i + 1
                /\ IF i + 1 = NTasks
                     THEN pc' = "returned" /\ ret' = Return(results', NoErr)
                     ELSE pc' = "seq_check" /\ ret' = ret
    /\ UNCHANGED <<project, cfg, o, output, ctxDone, cur, parVars, goalVars, allocs, execCount,
                   execBy, agentCalls, mgrVars>>

----------------------------------------------------------------------------
(* Parallel strategy *)

\* mutant: the whole pre-sized slice is returned on cancellation
ParCancelledWholeSlice(res, idx) == Return(res, CtxErr)

\* return results[:i], ctx.Err()
ParCancelled(res, idx) == Return(SubSeq(res, 1, idx), CtxErr)

\* the return after wg.Wait()
ParJoined(res, es) ==
    IF Len(es) > 0 THEN Return(res, Joined(es)) ELSE Return(res, NoErr)

\* mutant: only the first failure is kept
RecordFirstErrorOnly(es, idx) == IF es = <<>> THEN <<TaskFailed(idx)>> ELSE es

\* errs = append(errs, fmt.Errorf("task %d failed: %w", idx, taskErr))
RecordError(es, idx) == Append(es, TaskFailed(idx))

\* mutant: the result goes to the first unset slot, in completion order
SetFirstFreeSlot(res, idx, r) ==
    LET free == {k \in 1 .. Len(res) : res[k] = NilResult}
    IN  [res EXCEPT ![CHOOSE k \in free : \A h \in free : k <= h] = r]

\* results[idx] = result
SetSlot(res, idx, r) == [res EXCEPT ![idx + 1] = r]

\* Kickoff, case Parallel: enter executeParallel
KickoffParallel ==
    /\ pc = "kickoff"
    /\ o.process = Parallel
    /\ results' = [k \in 1 .. NTasks |-> NilResult]
    /\ i' = 0
    /\ pc' = IF NTasks = 0 THEN "par_wait" ELSE "par_check"
    /\ UNCHANGED <<project, cfg, o, output, ctxDone, cur, ret, parVars, goalVars, allocs, histVars,
                   mgrVars>>

\* the select on ctx.Done(), then wg.Add(1) and the go statement for index i
ParCheck ==
    /\ pc = "par_check"
    /\ IF ctxDone
         THEN /\ pc' = "returned"
              /\ ret' = ParCancelled(results, i)
              /\ UNCHANGED <<i, wg, unit>>
         ELSE /\ wg' = wg + 1
              /\ unit' = [unit EXCEPT ![i] = "exec"]
              /\ i' = i + 1
              /\ pc' = IF i + 1 = NTasks THEN "par_wait" ELSE "par_check"
              /\ ret' = ret
    /\ UNCHANGED <<project, cfg, o, output, ctxDone, results, cur, unitOut, mu, errs, goalVars,
                   allocs, histVars, mgrVars>>

\* goroutine idx: o.executeTask(ctx, t) runs and returns
UnitExec(idx) ==
    /\ unit[idx] = "exec"
    /\ \E out \in ExecOutcomes(o.tasks[idx + 1]) :
         /\ unitOut' = [unitOut EXCEPT ![idx] = out]
         /\ execOk' = IF out = "ok" THEN execOk \cup {idx} ELSE execOk
         /\ execErr' = [execErr EXCEPT ![idx] = ExecuteErr(o.tasks[idx + 1], out)]
    /\ execCount' = [execCount EXCEPT ![idx] = @ + 1]
    /\ execBy' = [execBy EXCEPT ![idx] = o.tasks[idx + 1].Agent]
    /\ agentCalls' = [agentCalls EXCEPT ![idx] = @ + CallsAgent(o.tasks[idx + 1])]
    /\ unit' = [unit EXCEPT ![idx] = "lock"]
    /\ UNCHANGED <<project, cfg, o, output, ctxDone, pc, i, results, cur, ret, mu, wg, errs, goalVars,
                   allocs, mgrVars>>

\* mutant: Lock does not wait for the holder
UnitLockNoWait(idx) ==
    /\ unit[idx] = "lock"
    /\ mu' = mu \cup {idx}
    /\ unit' = [unit EXCEPT ![idx] = "write"]
    /\ UNCHANGED <<project, cfg, o, output, ctxDone, pc, i, results, cur, ret, unitOut,
                   wg, errs, goalVars, allocs, histVars, mgrVars>>

\* goroutine idx: mu.Lock()
UnitLock(idx) ==
    /\ unit[idx] = "lock"
    /\ mu = MuFree
    /\ mu' = {idx}
    /\ unit' = [unit EXCEPT ![idx] = "write"]
    /\ UNCHANGED <<project, cfg, o, output, ctxDone, pc, i, results, cur, ret, unitOut, wg, errs,
                   goalVars, allocs, histVars, mgrVars>>

\* goroutine idx: the if/else between Lock and Unlock
UnitWrite(idx) ==
    /\ unit[idx] = "write"
    /\ IF unitOut[idx] = "fail"
         THEN errs' = RecordError(errs, idx) /\ results' = results
         ELSE results' = SetSlot(results, idx, TaskResult(o.tasks[idx + 1]))
              /\ errs' = errs
    /\ unit' = [unit EXCEPT ![idx] = "unlock"]
    /\ UNCHANGED <<project, cfg, o, output, ctxDone, pc, i, cur, ret, unitOut, mu, wg, goalVars,
                   allocs, histVars, mgrVars>>

\* mutant: the unit leaves without releasing the lock
UnitUnlockKeepsLock(idx) ==
    /\ unit[idx] = "unlock"
    /\ mu' = mu
    /\ unit' = [unit EXCEPT ![idx] = "exit"]
    /\ UNCHANGED <<project, cfg, o, output, ctxDone, pc, i, results, cur, ret, unitOut,
                   wg, errs, goalVars, allocs, histVars, mgrVars>>

\* goroutine idx: mu.Unlock()
UnitUnlock(idx) ==
    /\ unit[idx] = "unlock"
    /\ mu' = MuFree
    /\ unit' = [unit EXCEPT ![idx] = "exit"]
    /\ UNCHANGED <<project, cfg, o, output, ctxDone, pc, i, results, cur, ret, unitOut, wg, errs,
                   goalVars, allocs, histVars, mgrVars>>

\* goroutine idx: the deferred wg.Done()
UnitDone(idx) ==
    /\ unit[idx] = "exit"
    /\ wg' = wg - 1
    /\ unit' = [unit EXCEPT ![idx] = "done"]
    /\ UNCHANGED <<project, cfg, o, output, ctxDone, pc, i, results, cur, ret, unitOut, mu, errs,
                   goalVars, allocs, histVars, mgrVars>>

\* wg.Wait() returns, then the return statements
ParWait ==
    /\ pc = "par_wait"
    /\ wg = 0
    /\ pc' = "returned"
    /\ ret' = ParJoined(results, errs)
    /\ UNCHANGED <<project, cfg, o, output, ctxDone, i, results, cur, parVars, goalVars, allocs,
                   histVars, mgrVars>>

----------------------------------------------------------------------------
(* Hierarchical strategy: preconditions and choice of sub-mode *)

NoManager == [kind |-> "hierarchical mode requires a manager LLM"]
NoAgents == [kind |-> "no agents available for orchestration"]
NoTasksNoGoal == [kind |-> "hierarchical mode requires either tasks or a goal"]

\* mutant: the manager model is not checked
HierPreconditionNoManagerCheck(orch) ==
    IF Len(orch.agents) = 0 THEN NoAgents
    ELSE IF Len(orch.tasks) > 0 THEN NoErr
    ELSE IF orch.goal # <<>> THEN NoErr
    ELSE NoTasksNoGoal

\* the error executeHierarchical returns before any work, or NoErr
HierPrecondition(orch) ==
    IF ~orch.managerLLM THEN NoManager
    ELSE IF Len(orch.agents) = 0 THEN NoAgents
    ELSE IF Len(orch.tasks) > 0 THEN NoErr
    ELSE IF orch.goal # <<>> THEN NoErr
    ELSE NoTasksNoGoal

\* mutant: a goal takes precedence over the task list
HierSubModeGoalFirst(orch) == IF orch.goal # <<>> THEN "goal" ELSE "predefined"

\* which of the two sub-modes executeHierarchical dispatches to
HierSubMode(orch) == IF Len(orch.tasks) > 0 THEN "predefined" ELSE "goal"

\* Kickoff, case Hierarchical: a precondition fails
KickoffHierInvalid ==
    /\ pc = "kickoff"
    /\ o.process = Hierarchical
    /\ HierPrecondition(o) # NoErr
    /\ pc' = "returned"
    /\ ret' = ReturnNil(HierPrecondition(o))
    /\ UNCHANGED <<project, cfg, o, output, ctxDone, i, results, cur, parVars, goalVars, allocs,
                   histVars, mgrVars>>

\* Kickoff, case Hierarchical: enter orchestratePredefinedTasks
KickoffHierPredefined ==
    /\ pc = "kickoff"
    /\ o.process = Hierarchical
    /\ HierPrecondition(o) = NoErr
    /\ HierSubMode(o) = "predefined"
    /\ results' = <<>>
    /\ i' = 0
    /\ pc' = "pre_check"
    /\ UNCHANGED <<project, cfg, o, output, ctxDone, cur, ret, parVars, goalVars, allocs, histVars,
                   mgrVars>>

\* mutant: the context is checked before the planning call
KickoffHierGoalChecksCtx ==
    /\ pc = "kickoff"
    /\ o.process = Hierarchical
    /\ HierPrecondition(o) = NoErr
    /\ HierSubMode(o) = "goal"
    /\ IF ctxDone
         THEN pc' = "returned" /\ ret' = Return(<<>>, CtxErr) /\ planCalls' = planCalls
         ELSE pc' = "goal_plan" /\ ret' = ret /\ planCalls' = planCalls + 1
    /\ UNCHANGED <<project, cfg, o, output, ctxDone, i, results, cur, parVars, goalVars,
                   allocs, histVars, mgrCount, response>>

\* Kickoff, case Hierarchical: enter orchestrateFromGoal, which issues the
\* manager call of createExecutionPlan
KickoffHierGoal ==
    /\ pc = "kickoff"
    /\ o.process = Hierarchical
    /\ HierPrecondition(o) = NoErr
    /\ HierSubMode(o) = "goal"
    /\ planCalls' = planCalls + 1
    /\ pc' = "goal_plan"
    /\ UNCHANGED <<project, cfg, o, output, ctxDone, i, results, cur, ret, parVars, goalVars, allocs,
                   histVars, mgrCount, response>>

----------------------------------------------------------------------------
(* Hierarchical strategy: predefined tasks *)

\* what the manager model may answer to a selection prompt
SelectReplies ==
    {<<"c", "h", "a", "t", "b", "o", "t">>,
     <<" ", "B", "O", "T", "\n">>,
     <<"z">>}

\* mutant: the error names the task by its 1-based position
SelectFailedOneBased(idx) == [kind |-> "manager failed to select agent", index |-> idx + 1]

\* fmt.Errorf("manager failed to select agent for task %d: %w", i, err)
SelectFailed(idx) == [kind |-> "manager failed to select agent", index |-> idx]

\* mutant: the manager is asked for every task
NeverAssigned(t) == FALSE

\* if t.Agent != nil
HasAssignedAgent(t) == t.Agent # NilAgent

\* the condition of the loop in selectAgentForTask, for one agent
NameMatches(a, resp) ==
    \/ EqualFold(a.Name, TrimSpace(resp))
    \/ Contains(ToLower(resp), ToLower(a.Name))

\* mutant: the fallback is the last agent of the list
SelectAgentFallbackLast(agents, resp) ==
    LET hits == {k \in 1 .. Len(agents) : NameMatches(agents[k], resp)}
    IN  IF hits # {}
          THEN agents[CHOOSE k \in hits : \A h \in hits : k <= h]
          ELSE agents[Len(agents)]

\* selectAgentForTask after the manager replied: the first agent of the list
\* whose condition holds, else the first agent
SelectAgent(agents, resp) ==
    LET hits == {k \in 1 .. Len(agents) : NameMatches(agents[k], resp)}
    IN  IF hits # {}
          THEN agents[CHOOSE k \in hits : \A h \in hits : k <= h]
          ELSE agents[1]

\* the fresh address of the next Task the engine allocates
NewPtr == NTasks + allocs + 1

\* the ctx check of the loop body, then either executeTask on the bound task
\* or the manager call of selectAgentForTask
PreCheck ==
    /\ pc = "pre_check"
    /\ IF ctxDone
         THEN /\ pc' = "returned"
              /\ ret' = Return(results, CtxErr)
              /\ UNCHANGED <<cur, histVars, mgrCount>>
         ELSE IF HasAssignedAgent(o.tasks[i + 1])
           THEN /\ pc' = "pre_exec"
                /\ ret' = ret
                /\ IssueExec(i, o.tasks[i + 1])
                /\ UNCHANGED mgrCount
           ELSE /\ pc' = "pre_select"
                /\ ret' = ret
                /\ mgrCount' = [mgrCount EXCEPT ![i] = @ + 1]
                /\ UNCHANGED <<cur, histVars>>
    /\ UNCHANGED <<project, cfg, o, output, ctxDone, i, results, parVars, goalVars, allocs, planCalls,
                   response>>

\* managerLLM.Generate returns; on a reply the agent is chosen, the task is
\* rebound with WithAgent and executeTask is called
PreSelect ==
    /\ pc = "pre_select"
    /\ \/ /\ pc' = "returned"
          /\ ret' = Return(results, SelectFailed(i))
          /\ UNCHANGED <<cur, histVars, allocs, response>>
       \/ \E resp \in SelectReplies :
            /\ response' = resp
            /\ pc' = "pre_exec"
            /\ ret' = ret
            /\ allocs' = allocs + 1
            /\ IssueExec(i, WithAgent(o.tasks[i + 1], SelectAgent(o.agents, resp), NewPtr))
    /\ UNCHANGED <<project, cfg, o, output, ctxDone, i, results, parVars, goalVars, mgrCount, planCalls>>

\* executeTask returns; the rest of the loop body
PreExec ==
    /\ pc = "pre_exec"
    /\ \E out \in ExecOutcomes(cur) :
         /\ execErr' = [execErr EXCEPT ![i] = ExecuteErr(cur, out)]
         /\ IF out = "fail"
           THEN /\ pc' = "returned"
                /\ ret' = Return(results, TaskFailed(i))
                /\ UNCHANGED <<i, results, execOk>>
           ELSE /\ results' = Append(results, TaskResult(cur))
                /\ execOk' = execOk \cup {i}
                /\ i' = i + 1
                /\ IF i + 1 = NTasks
                     THEN pc' = "returned" /\ ret' = Return(results', NoErr)
                     ELSE pc' = "pre_check" /\ ret' = ret
    /\ UNCHANGED <<project, cfg, o, output, ctxDone, cur, parVars, goalVars, allocs, execCount,
                   execBy, agentCalls, mgrVars>>

----------------------------------------------------------------------------
(* Hierarchical strategy: goal decomposition *)

\* fmt.Errorf("manager failed to create execution plan: %w", err)
PlanFailed(why) == [kind |-> "manager failed to create execution plan", cause |-> why]
\* mutant: the error names the step by its 0-based index
StepFailedZeroBased(n) == [kind |-> "step failed", step |-> n - 1]

\* fmt.Errorf("step %d failed: %w", i+1, err)
StepFailed(n) == [kind |-> "step failed", step |-> n]

\* extractJSON: the scan from position k with the given depth
RECURSIVE ScanJSON(_, _, _, _)
ScanJSON(s, start, k, depth) ==
    IF k > Len(s) THEN <<>>
    ELSE IF s[k] = "[" THEN ScanJSON(s, start, k + 1, depth + 1)
    ELSE IF s[k] = "]"
      THEN IF depth - 1 = 0 THEN SubSeq(s, start, k)
           ELSE ScanJSON(s, start, k + 1, depth - 1)
    ELSE ScanJSON(s, start, k + 1, depth)

\* mutant: the payload runs to the last closing bracket of the reply
extractJSONToLastBracket(s) ==
    LET opens == {k \in 1 .. Len(s) : s[k] = "["}
        closes == {k \in 1 .. Len(s) : s[k] = "]"}
    IN  IF opens = {} \/ closes = {} THEN <<>>
        ELSE LET start == CHOOSE k \in opens : \A h \in opens : k <= h
                 end == CHOOSE k \in closes : \A h \in closes : k >= h
             IN  IF end > start THEN SubSeq(s, start, end) ELSE <<>>

\* extractJSON
extractJSON(s) ==
    LET opens == {k \in 1 .. Len(s) : s[k] = "["}
    IN  IF opens = {} THEN <<>>
        ELSE LET start == CHOOSE k \in opens : \A h \in opens : k <= h
             IN  ScanJSON(s, start, start, 0)

\* json.Unmarshal into []PlanStep succeeds on "[" "]" around objects
\* separated by commas
ValidPlanJSON(js) ==
    /\ Len(js) >= 2
    /\ js[1] = "["
    /\ js[Len(js)] = "]"
    /\ LET body == SubSeq(js, 2, Len(js) - 1)
       IN  \/ body = <<>>
           \/ /\ Len(body) % 2 = 1
              /\ \A k \in 1 .. Len(body) :
                   IF k % 2 = 1 THEN body[k] \in ObjTokens ELSE body[k] = ","

\* the []PlanStep json.Unmarshal produces from a valid payload
DecodePlan(js) ==
    LET body == SubSeq(js, 2, Len(js) - 1)
    IN  [k \in 1 .. ((Len(body) + 1) \div 2) |-> StepOf(body[2 * k - 1])]

\* mutant: an empty plan is accepted
ParsePlanReplyAllowsEmpty(reply) ==
    LET js == extractJSON(reply)
    IN  IF js = <<>>
          THEN [err |-> "manager did not return valid JSON plan", plan |-> <<>>]
        ELSE IF ~ValidPlanJSON(js)
          THEN [err |-> "failed to parse execution plan", plan |-> <<>>]
        ELSE [err |-> "", plan |-> DecodePlan(js)]

\* createExecutionPlan after the manager replied: [err, plan]
ParsePlanReply(reply) ==
    LET js == extractJSON(reply)
    IN  IF js = <<>>
          THEN [err |-> "manager did not return valid JSON plan", plan |-> <<>>]
        ELSE IF ~ValidPlanJSON(js)
          THEN [err |-> "failed to parse execution plan", plan |-> <<>>]
        ELSE IF Len(DecodePlan(js)) = 0
          THEN [err |-> "manager returned empty plan", plan |-> <<>>]
        ELSE [err |-> "", plan |-> DecodePlan(js)]

\* mutant: the name is matched as in selectAgentForTask, containment included
findAgentByNameOrContained(agents, name) ==
    LET hits == {k \in 1 .. Len(agents) : NameMatches(agents[k], name)}
    IN  IF hits = {} THEN 0 ELSE CHOOSE k \in hits : \A h \in hits : k <= h

\* findAgentByName: the index of the first agent whose name matches, or 0
findAgentByName(agents, name) ==
    LET hits == {k \in 1 .. Len(agents) : EqualFold(agents[k].Name, name)}
    IN  IF hits = {} THEN 0 ELSE CHOOSE k \in hits : \A h \in hits : k <= h

\* the agent a plan step runs on: the one found, else o.agents[0]
StepAgent(agents, step) ==
    IF findAgentByName(agents, step.AgentName) = 0
      THEN agents[1]
      ELSE agents[findAgentByName(agents, step.AgentName)]

\* taskDesc, with the context block when there is one and the step asks for it
StepDescription(step, prev) ==
    IF prev # <<>> /\ step.UseContext
      THEN step.TaskDescription \o <<"\n\nContext from previous tasks:\n">> \o prev
      ELSE step.TaskDescription

\* mutant: the entry is built from the description the task was executed with
ContextEntryFromExecuted(step, r) ==
    <<"\n--- ">> \o r.Task.Description \o <<" (by ">> \o step.AgentName
        \o <<") ---\n">> \o r.Result \o <<"\n">>

\* fmt.Sprintf("\n--- %s (by %s) ---\n%s\n", step.TaskDescription, step.AgentName, result.Result)
ContextEntry(step, r) ==
    <<"\n--- ">> \o step.TaskDescription \o <<" (by ">> \o step.AgentName
        \o <<") ---\n">> \o r.Result \o <<"\n">>

\* managerLLM.Generate returns in createExecutionPlan; the plan is extracted,
\* parsed and checked
GoalPlan ==
    /\ pc = "goal_plan"
    /\ \/ /\ pc' = "returned"
          /\ ret' = ReturnNil(PlanFailed("generate"))
          /\ UNCHANGED <<plan, results, i, response>>
       \/ \E reply \in PlanReplies :
            /\ response' = reply
            /\ IF ParsePlanReply(reply).err # ""
                 THEN /\ pc' = "returned"
                      /\ ret' = ReturnNil(PlanFailed(ParsePlanReply(reply).err))
                      /\ UNCHANGED <<plan, results, i>>
                 ELSE /\ plan' = ParsePlanReply(reply).plan
                      /\ results' = <<>>
                      /\ i' = 0
                      /\ IF Len(plan') = 0
                           THEN pc' = "returned" /\ ret' = Return(<<>>, NoErr)
                           ELSE pc' = "goal_check" /\ ret' = ret
    /\ UNCHANGED <<project, cfg, o, output, ctxDone, cur, parVars, previousResults, allocs, histVars,
                   mgrCount, planCalls>>

\* the ctx check of the step loop, then the task is synthesized and executeTask called
GoalCheck ==
    /\ pc = "goal_check"
    /\ IF ctxDone
         THEN /\ pc' = "returned"
              /\ ret' = Return(results, CtxErr)
              /\ UNCHANGED <<cur, histVars, allocs>>
         ELSE /\ pc' = "goal_exec"
              /\ ret' = ret
              /\ allocs' = allocs + 1
              /\ IssueExec(i, Task(NewPtr,
                                   StepDescription(plan[i + 1], previousResults),
                                   plan[i + 1].ExpectedOutput,
                                   StepAgent(o.agents, plan[i + 1])))
    /\ UNCHANGED <<project, cfg, o, output, ctxDone, i, results, parVars, goalVars, mgrVars>>

\* mutant: a failed step is skipped and the next one started
GoalExecSkipsFailure ==
    /\ pc = "goal_exec"
    /\ \E out \in ExecOutcomes(cur) :
         /\ execErr' = [execErr EXCEPT ![i] = ExecuteErr(cur, out)]
         /\ IF out = "fail"
              THEN /\ i' = i + 1
                   /\ IF i + 1 = Len(plan)
                        THEN pc' = "returned" /\ ret' = Return(results, NoErr)
                        ELSE pc' = "goal_check" /\ ret' = ret
                   /\ UNCHANGED <<results, execOk, previousResults>>
              ELSE /\ results' = Append(results, TaskResult(cur))
                   /\ previousResults' =
                          previousResults \o ContextEntry(plan[i + 1], TaskResult(cur))
                   /\ execOk' = execOk \cup {i}
                   /\ i' = i + 1
                   /\ IF i + 1 = Len(plan)
                        THEN pc' = "returned" /\ ret' = Return(results', NoErr)
                        ELSE pc' = "goal_check" /\ ret' = ret
    /\ UNCHANGED <<project, cfg, o, output, ctxDone, cur, parVars, plan, allocs,
                   execCount, execBy, agentCalls, mgrVars>>

\* executeTask returns; the rest of the loop body
GoalExec ==
    /\ pc = "goal_exec"
    /\ \E out \in ExecOutcomes(cur) :
         /\ execErr' = [execErr EXCEPT ![i] = ExecuteErr(cur, out)]
         /\ IF out = "fail"
           THEN /\ pc' = "returned"
                /\ ret' = Return(results, StepFailed(i + 1))
                /\ UNCHANGED <<i, results, execOk, previousResults>>
           ELSE /\ results' = Append(results, TaskResult(cur))
                /\ previousResults' =
                       previousResults \o ContextEntry(plan[i + 1], TaskResult(cur))
                /\ execOk' = execOk \cup {i}
                /\ i' = i + 1
                /\ IF i + 1 = Len(plan)
                     THEN pc' = "returned" /\ ret' = Return(results', NoErr)
                     ELSE pc' = "goal_check" /\ ret' = ret
    /\ UNCHANGED <<project, cfg, o, output, ctxDone, cur, parVars, plan, allocs, execCount, execBy,
                   agentCalls, mgrVars>>

----------------------------------------------------------------------------
(* FormatResults *)

\* the %d verb, for the numbers of the model
Itoa(n) == IF n = 0 THEN <<"0">> ELSE <<Digits[n]>>

\* mutant: entries are numbered by their 0-based index
EntryNumberZeroBased(idx) == Itoa(idx)

\* the number an entry is given: i+1
EntryNumber(idx) == Itoa(idx + 1)

\* the body of the loop in FormatResults, for the 0-based index idx
FormatEntry(idx, r) ==
    <<"Task ">> \o EntryNumber(idx) \o <<": ">> \o r.Task.Description \o <<"\n">>
        \o <<"Agent: ">> \o r.Agent \o <<"\n">>
        \o <<"Result:\n">> \o r.Result \o <<"\n">>
        \o <<"------------------------\n\n">>

\* the loop of FormatResults over the first n results
RECURSIVE FormatLoop(_, _)
FormatLoop(res, n) ==
    IF n = 0 THEN <<"\n=== EXECUTION RESULTS ===\n\n">>
    ELSE FormatLoop(res, n - 1) \o FormatEntry(n - 1, res[n])

\* FormatResults
FormatResults(res) == FormatLoop(res, Len(res))

\* the caller of Kickoff prints FormatResults(results) when err is nil
Format ==
    /\ pc = "returned"
    /\ ret.err = NoErr
    /\ output = NotFormatted
    /\ output' = Formatted(FormatResults(ret.results))
    /\ UNCHANGED <<project, cfg, o, ctxDone, pc, i, results, cur, ret, parVars, goalVars,
                   allocs, histVars, mgrVars>>

----------------------------------------------------------------------------
(* Kickoff *)

\* Kickoff, default case
KickoffUnknown ==
    /\ pc = "kickoff"
    /\ o.process \notin {Sequential, Parallel, Hierarchical}
    /\ pc' = "returned"
    /\ ret' = ReturnNil(UnknownProcess)
    /\ UNCHANGED <<project, cfg, o, output, ctxDone, i, results, cur, parVars, goalVars, allocs,
                   histVars, mgrVars>>

Next ==
    \/ Cancel
    \/ KickoffSequential
    \/ SeqCheck
    \/ SeqExec
    \/ KickoffParallel
    \/ ParCheck
    \/ \E idx \in DOMAIN unit : UnitExec(idx)
    \/ \E idx \in DOMAIN unit : UnitLock(idx)
    \/ \E idx \in DOMAIN unit : UnitWrite(idx)
    \/ \E idx \in DOMAIN unit : UnitUnlock(idx)
    \/ \E idx \in DOMAIN unit : UnitDone(idx)
    \/ ParWait
    \/ KickoffHierInvalid
    \/ KickoffHierPredefined
    \/ PreCheck
    \/ PreSelect
    \/ PreExec
    \/ KickoffHierGoal
    \/ GoalPlan
    \/ GoalCheck
    \/ GoalExec
    \/ KickoffUnknown
    \/ Format

Spec == Init /\ [][Next]_vars

\* a step of executeParallel or of one of its goroutines
ParStep ==
    \/ KickoffParallel
    \/ ParCheck
    \/ \E idx \in DOMAIN unit : UnitExec(idx)
    \/ \E idx \in DOMAIN unit : UnitLock(idx)
    \/ \E idx \in DOMAIN unit : UnitWrite(idx)
    \/ \E idx \in DOMAIN unit : UnitUnlock(idx)
    \/ \E idx \in DOMAIN unit : UnitDone(idx)
    \/ ParWait

\* the Go scheduler runs some runnable goroutine, and task executions return:
\* while a step of Parallel mode is possible, one is eventually taken
FairSpec == Spec /\ WF_vars(ParStep)

----------------------------------------------------------------------------
(* Properties *)

IsSequential == o.process = Sequential
IsParallel == o.process = Parallel
IsPredefined ==
    o.process = Hierarchical /\ o.managerLLM /\ Len(o.agents) > 0 /\ NTasks > 0

\* the results of tasks 0 .. k-1, in order
SeqPrefix(k) == [j \in 1 .. k |-> TaskResult(o.tasks[j])]

\* tasks whose execution was issued, has returned, and failed
SeqFailedTasks ==
    {k \in Indices : execCount[k] > 0 /\ k \notin execOk /\ ~(pc = "seq_exec" /\ i = k)}

\* indices whose goroutine got an error / a result from executeTask
ParFailSet == {idx \in DOMAIN unit : unitOut[idx] = "fail"}

RECURSIVE SumOver(_, _)
SumOver(f, S) ==
    IF S = {} THEN 0
    ELSE LET x == CHOOSE y \in S : TRUE IN f[x] + SumOver(f, S \ {x})

\* C1: Sequential mode: when task k is the first task whose execution fails,
\* Kickoff has returned exactly the results of tasks 0..k-1 in order with an
\* error naming index k, and no task after k was ever executed.
C1_SeqFirstFailure ==
    IsSequential =>
        \A k \in SeqFailedTasks :
            /\ pc = "returned"
            /\ ret = Return(SeqPrefix(k), TaskFailed(k))
            /\ Len(ret.results) = k
            /\ \A j \in Indices : j < k => j \in execOk
            /\ \A j \in Indices : j > k => execCount[j] = 0

C1_Witness ==
    /\ IsSequential
    /\ NTasks = 3
    /\ pc = "returned"
    /\ 1 \in SeqFailedTasks
    /\ Len(ret.results) = 1

\* C2 as stated: Parallel mode: the returned list always has the length of
\* the task list, and every successfully completed index i holds task i.
C2_Original ==
    (IsParallel /\ pc = "returned") =>
        /\ Len(ret.results) = NTasks
        /\ \A idx \in execOk :
             /\ ret.results[idx + 1] # NilResult
             /\ ret.results[idx + 1].Task = o.tasks[idx + 1]

\* C2 amended: Parallel mode: when no launch check finds the context
\* cancelled the returned list has the length of the task list and every
\* successfully completed index i holds task i; when the check before task i
\* finds it cancelled the list has length i; and in every state a set slot k
\* holds the result of task k, written by the unit launched for k.
C2_ParLengthAndSlots ==
    IsParallel =>
        /\ (pc = "returned" /\ ret.err # CtxErr) =>
              /\ Len(ret.results) = NTasks
              /\ \A idx \in execOk :
                   /\ ret.results[idx + 1] # NilResult
                   /\ ret.results[idx + 1].Task = o.tasks[idx + 1]
        /\ (pc = "returned" /\ ret.err = CtxErr) =>
              /\ Len(ret.results) = i
              /\ i < NTasks
        /\ \A k \in 1 .. Len(results) :
              results[k] # NilResult =>
                  /\ results[k].Task = o.tasks[k]
                  /\ unitOut[k - 1] = "ok"
                  /\ unit[k - 1] \in {"unlock", "exit", "done"}

\* index 2 was slotted before index 0, whose task also succeeded
C2_Witness ==
    /\ IsParallel
    /\ NTasks = 3
    /\ pc = "par_wait"
    /\ results[3] # NilResult
    /\ results[3].Task = o.tasks[3]
    /\ results[1] = NilResult
    /\ unitOut[0] = "ok"
    /\ unit[0] = "lock"

\* C3: Parallel mode: after the join, for the set F of failed tasks the
\* combined error has exactly one constituent per index of F, each naming its
\* index, the list has n entries, the slots of F are unset and every other
\* slot holds its task's result.
C3_ParAggregatedErrors ==
    (IsParallel /\ pc = "returned" /\ ret.err # CtxErr) =>
        /\ Len(ret.results) = NTasks
        /\ \A idx \in DOMAIN unit :
             IF idx \in ParFailSet
               THEN ret.results[idx + 1] = NilResult
               ELSE ret.results[idx + 1] = TaskResult(o.tasks[idx + 1])
        /\ IF ParFailSet = {}
             THEN ret.err = NoErr
             ELSE /\ ret.err.kind = "join"
                  /\ Len(ret.err.errs) = Cardinality(ParFailSet)
                  /\ \A idx \in ParFailSet :
                       \E k \in 1 .. Len(ret.err.errs) : ret.err.errs[k] = TaskFailed(idx)

\* tasks 0 and 2 of three failed, 2 before 0
C3_Witness ==
    /\ IsParallel
    /\ NTasks = 3
    /\ pc = "returned"
    /\ ret.err = Joined(<<TaskFailed(2), TaskFailed(0)>>)
    /\ ret.results[2] # NilResult

\* C4: Parallel mode: on every return path every launched unit has finished.
C4_JoinedOnEveryReturn ==
    (IsParallel /\ pc = "returned") =>
        \A idx \in DOMAIN unit : unit[idx] \in {"idle", "done"}

\* C5: Parallel mode: when the check before launching task i finds the
\* context cancelled, the strategy returns results[:i] (length i) with the
\* cancellation error and launches nothing; no unit for an index >= i is
\* ever launched.
C5_ParCancel ==
    /\ [][(IsParallel /\ pc = "par_check" /\ ctxDone /\ pc' # pc) =>
            /\ pc' = "returned"
            /\ ret' = Return(SubSeq(results, 1, i), CtxErr)
            /\ Len(ret'.results) = i
            /\ unit' = unit
            /\ execCount' = execCount]_vars
    /\ []((IsParallel /\ pc = "returned" /\ ret.err = CtxErr) =>
            \A idx \in DOMAIN unit :
                idx >= Len(ret.results) => unit[idx] = "idle" /\ execCount[idx] = 0)

\* cancelled before the third of three tasks, the first already slotted
C5_Witness ==
    /\ IsParallel
    /\ NTasks = 3
    /\ pc = "returned"
    /\ ret.err = CtxErr
    /\ Len(ret.results) = 2
    /\ ret.results[1] # NilResult

\* C6: Sequential mode: when the context is cancelled as task i is about to
\* start, Kickoff returns the results of tasks 0..i-1 in order with the
\* cancellation error, and task i and the later tasks are never executed.
C6_SeqCancel ==
    /\ [][(IsSequential /\ pc = "seq_check" /\ ctxDone) =>
            /\ pc' = "returned"
            /\ ret' = Return(SeqPrefix(i), CtxErr)
            /\ execCount' = execCount]_vars
    /\ []((IsSequential /\ pc = "returned" /\ ret.err = CtxErr) =>
            \A j \in Indices : j >= Len(ret.results) => execCount[j] = 0)

\* cancelled before the third of three tasks
C6_Witness ==
    /\ IsSequential
    /\ NTasks = 3
    /\ pc = "returned"
    /\ ret.err = CtxErr
    /\ Len(ret.results) = 2
    /\ execCount[2] = 0

\* C7: whenever Kickoff returns an error, every task whose execution has
\* completed successfully by then is in the returned list (at its own index
\* in Parallel mode, in execution order otherwise).
C7_SuccessesReturned ==
    [][(pc # "returned" /\ pc' = "returned" /\ ret'.err # NoErr) =>
          \A idx \in execOk' :
              /\ idx < Len(ret'.results)
              /\ ret'.results[idx + 1] # NilResult
              /\ IsParallel => ret'.results[idx + 1].Task = o.tasks[idx + 1]]_vars

\* C8: Hierarchical mode: without a manager model, or without agents, or
\* with neither tasks nor a goal, Kickoff returns an error and nil results,
\* and no manager call is issued and no task executed.
C8_HierPreconditions ==
    (/\ o.process = Hierarchical
     /\ \/ ~o.managerLLM
        \/ Len(o.agents) = 0
        \/ (NTasks = 0 /\ o.goal = <<>>)) =>
        /\ pc \in {"kickoff", "returned"}
        /\ pc = "returned" => (ret.isNil /\ ret.results = <<>> /\ ret.err # NoErr)
        /\ planCalls = 0
        /\ \A idx \in Indices : mgrCount[idx] = 0 /\ execCount[idx] = 0

\* a manager and tasks, but no agents
C8_Witness ==
    /\ o.process = Hierarchical
    /\ o.managerLLM
    /\ NTasks = 2
    /\ Len(o.agents) = 0
    /\ pc = "returned"
    /\ ret.isNil

\* the tasks the predefined-task loop has processed when it returns
PreProcessed ==
    IF ret.err \in {NoErr, CtxErr} THEN 0 .. (i - 1) ELSE 0 .. i

\* C9: Hierarchical predefined-task mode: a task with a bound agent is
\* executed by that agent and no manager call is issued for it; at return the
\* number of manager calls is the number of processed tasks without a bound
\* agent.
C9_BoundTasksSkipManager ==
    IsPredefined =>
        /\ \A idx \in 0 .. (NTasks - 1) :
             o.tasks[idx + 1].Agent # NilAgent =>
                 /\ mgrCount[idx] = 0
                 /\ execCount[idx] > 0 => execBy[idx] = o.tasks[idx + 1].Agent
        /\ pc = "returned" =>
             planCalls + SumOver(mgrCount, Indices) =
                 Cardinality({idx \in PreProcessed : o.tasks[idx + 1].Agent = NilAgent})

\* bound, unbound, bound: one manager call over the whole run
C9_Witness ==
    /\ IsPredefined
    /\ NTasks = 3
    /\ pc = "returned"
    /\ ret.err = NoErr
    /\ o.tasks[1].Agent = Chatbot
    /\ o.tasks[2].Agent = NilAgent
    /\ o.tasks[3].Agent = Chatbot
    /\ execBy[0] = Chatbot
    /\ SumOver(mgrCount, Indices) = 1

\* C10: Hierarchical predefined-task mode: when the manager's trimmed reply
\* equals an agent's name case-insensitively, that agent is selected.
C10_ExactMatchFirst ==
    (IsPredefined /\ pc = "pre_exec" /\ o.tasks[i + 1].Agent = NilAgent) =>
        \A k \in 1 .. Len(o.agents) :
            EqualFold(o.agents[k].Name, TrimSpace(response)) => cur.Agent = o.agents[k]

\* the manager's reply names no configured agent, exactly or by containment
NoAgentNamed(resp) ==
    \A k \in 1 .. Len(o.agents) :
        /\ ~EqualFold(o.agents[k].Name, TrimSpace(resp))
        /\ ~Contains(ToLower(resp), ToLower(o.agents[k].Name))

\* C11: Hierarchical predefined-task mode: when the manager's reply matches
\* no configured agent name, the selection raises no error, the task is
\* bound to and executed by the first configured agent, and when that
\* execution succeeds its result is recorded under that agent's name.
C11_FallbackFirstAgent ==
    /\ [][(IsPredefined /\ pc = "pre_select" /\ pc' # pc /\ ret' = ret
              /\ NoAgentNamed(response')) =>
            /\ pc' = "pre_exec"
            /\ ret' = NotReturned
            /\ cur'.Agent = o.agents[1]
            /\ execBy'[i] = o.agents[1]
            /\ execCount'[i] = 1]_vars
    /\ [][(IsPredefined /\ pc = "pre_exec" /\ o.tasks[i + 1].Agent = NilAgent
              /\ NoAgentNamed(response) /\ i \in execOk') =>
            /\ Len(results') = i + 1
            /\ results'[i + 1].Agent = o.agents[1].Name
            /\ results'[i + 1].Task.Agent = o.agents[1]
            /\ (pc' = "returned" => ret'.err = NoErr)]_vars

\* the reply "z" for the second of two unbound tasks, agents chatbot, bot
C11_Witness ==
    /\ IsPredefined
    /\ o.agents = <<Chatbot, Bot>>
    /\ NTasks = 2
    /\ pc = "returned"
    /\ ret.err = NoErr
    /\ response = <<"z">>
    /\ o.tasks[2].Agent = NilAgent
    /\ ret.results[2].Agent = Chatbot.Name

\* predefined-task mode: tasks whose manager call, or whose execution, has
\* returned an error
PreSelectFailedTasks ==
    {k \in Indices : mgrCount[k] > 0 /\ execCount[k] = 0 /\ ~(pc = "pre_select" /\ i = k)}
PreExecFailedTasks ==
    {k \in Indices : execCount[k] > 0 /\ k \notin execOk /\ ~(pc = "pre_exec" /\ i = k)}

\* the returned results are those of tasks 0 .. k-1, in order
PrePrefixReturned(k) ==
    /\ Len(ret.results) = k
    /\ \A j \in 1 .. k :
         /\ ret.results[j].Task.Description = o.tasks[j].Description
         /\ ret.results[j].Task.ExpectedOutput = o.tasks[j].ExpectedOutput

\* C12: Hierarchical predefined-task mode: when the manager call or the
\* execution fails for task i, Kickoff has returned the results of tasks
\* 0..i-1 with an error naming index i (0-based), and no later task was
\* processed and no further manager call issued.
C12_PredefinedAbort ==
    IsPredefined =>
        /\ \A k \in PreSelectFailedTasks :
             /\ pc = "returned"
             /\ ret.err = SelectFailed(k)
             /\ ret.err.index = k
        /\ \A k \in PreExecFailedTasks :
             /\ pc = "returned"
             /\ ret.err = TaskFailed(k)
        /\ \A k \in PreSelectFailedTasks \cup PreExecFailedTasks :
             /\ PrePrefixReturned(k)
             /\ \A j \in Indices : j > k => (execCount[j] = 0 /\ mgrCount[j] = 0)

\* the manager call fails for the third of three tasks
C12_Witness ==
    /\ IsPredefined
    /\ NTasks = 3
    /\ pc = "returned"
    /\ 2 \in PreSelectFailedTasks
    /\ Len(ret.results) = 2

IsGoal ==
    /\ o.process = Hierarchical
    /\ o.managerLLM
    /\ Len(o.agents) > 0
    /\ NTasks = 0
    /\ o.goal # <<>>

\* replies that hold no plan: no opening bracket; an opening bracket that is
\* never closed; brackets around something that is no array of plan steps;
\* the empty array
BadPlanReplies ==
    {r \in PlanReplies : \A k \in 1 .. Len(r) : r[k] # "["}
        \cup {<<"[", "A", ",", "B">>,
              <<"[", "[", "A", "]", "]">>,
              <<"[", "A", ",", "]">>,
              <<"[", "]">>}

PlanningFailed ==
    pc = "returned" /\ ret.err.kind = "manager failed to create execution plan"

\* C13: Hierarchical goal mode: when the manager call fails, or its reply has
\* no opening bracket or no matching closing bracket, or the extracted text
\* is no array of plan steps, or the array is empty, Kickoff returns an error
\* and no results, no agent executes anything, and the manager was called
\* exactly once.
C13_PlanningFailureFatal ==
    IsGoal =>
        /\ response \in BadPlanReplies => PlanningFailed
        /\ (pc = "returned" /\ response = <<>>) => PlanningFailed
        /\ PlanningFailed =>
             /\ ret.isNil
             /\ ret.results = <<>>
             /\ planCalls = 1
             /\ \A idx \in Indices : execCount[idx] = 0 /\ mgrCount[idx] = 0

\* the manager answered "[]"
C13_Witness ==
    /\ IsGoal
    /\ response = <<"[", "]">>
    /\ PlanningFailed
    /\ planCalls = 1

\* goal mode: steps (0-based) whose execution has returned an error
GoalFailedSteps ==
    {k \in Indices : execCount[k] > 0 /\ k \notin execOk /\ ~(pc = "goal_exec" /\ i = k)}

\* s begins with prefix
HasPrefix(s, prefix) ==
    Len(s) >= Len(prefix) /\ SubSeq(s, 1, Len(prefix)) = prefix

\* C14: Hierarchical goal mode: when the execution of plan step j (1-based)
\* fails, Kickoff has returned the results of steps 1..j-1 in plan order with
\* an error naming step number j, and no later step was executed.
C14_GoalStepAbort ==
    IsGoal =>
        \A k \in GoalFailedSteps :
            /\ pc = "returned"
            /\ ret.err = StepFailed(k + 1)
            /\ ret.err.step = k + 1
            /\ Len(ret.results) = k
            /\ \A j \in 1 .. k :
                 /\ HasPrefix(ret.results[j].Task.Description, plan[j].TaskDescription)
                 /\ ret.results[j].Task.ExpectedOutput = plan[j].ExpectedOutput
            /\ \A j \in Indices : j > k => execCount[j] = 0

\* the second of two steps fails
C14_Witness ==
    /\ IsGoal
    /\ Len(plan) = 2
    /\ pc = "returned"
    /\ 1 \in GoalFailedSteps
    /\ ret.err.step = 2
    /\ Len(ret.results) = 1

\* the agents whose name equals the plan's agent name, case-insensitively
NamedAgents(name) == {k \in 1 .. Len(o.agents) : EqualFold(o.agents[k].Name, name)}

\* the agent a plan step is to run on: the configured agent of that name,
\* else the first configured agent
ExpectedStepAgent(step) ==
    IF NamedAgents(step.AgentName) = {}
      THEN o.agents[1]
      ELSE o.agents[CHOOSE k \in NamedAgents(step.AgentName) : TRUE]

\* C15: Hierarchical goal mode: each plan step that passes the cancellation
\* check is executed, without error, by the configured agent whose name equals
\* the step's agent name case-insensitively (containment does not count), or
\* by the first configured agent when there is none.
C15_StepAgentResolution ==
    [][(IsGoal /\ pc = "goal_check" /\ ~ctxDone /\ pc' # pc) =>
          /\ pc' = "goal_exec"
          /\ ret' = NotReturned
          /\ cur'.Agent = ExpectedStepAgent(plan[i + 1])
          /\ execBy'[i] = ExpectedStepAgent(plan[i + 1])]_vars

\* "Chatbot" resolves to chatbot although bot comes first and is contained
\* in it; then "X" falls back to bot
C15_Witness ==
    /\ IsGoal
    /\ o.agents = <<Bot, Chatbot>>
    /\ Len(plan) = 2
    /\ plan[1].AgentName = <<"C", "h", "a", "t", "b", "o", "t">>
    /\ plan[2].AgentName = <<"X">>
    /\ pc = "returned"
    /\ ret.err = NoErr
    /\ execBy[0] = Chatbot
    /\ execBy[1] = Bot

\* the context block for the first n results: for each, the task description
\* of its step, the name of the agent that executed it, and its result text
RECURSIVE ContextBlock(_, _, _)
ContextBlock(steps, res, n) ==
    IF n = 0 THEN <<>>
    ELSE ContextBlock(steps, res, n - 1)
           \o <<"\n--- ">> \o steps[n].TaskDescription \o <<" (by ">> \o res[n].Agent
           \o <<") ---\n">> \o res[n].Result \o <<"\n">>

\* C16: Hierarchical goal mode: a step with its context-use flag set and at
\* least one completed prior step is executed with its description followed
\* by a block listing, for every completed step in order, its task
\* description, the name of the agent that executed it, and its result text;
\* otherwise the description is passed unchanged.
C16_ContextPassing ==
    (IsGoal /\ pc = "goal_exec") =>
        cur.Description =
            IF plan[i + 1].UseContext /\ i > 0
              THEN plan[i + 1].TaskDescription
                     \o <<"\n\nContext from previous tasks:\n">>
                     \o ContextBlock(plan, results, i)
              ELSE plan[i + 1].TaskDescription

\* C17: in every mode the Agent field of each TaskResult is the name of the
\* agent the task was executed by: the bound agent of the input task in
\* Sequential and Parallel mode and for bound tasks in predefined-task mode,
\* the agent the task was rebound to otherwise, and in goal mode the resolved
\* or fallback agent.
C17_ResultNamesExecutingAgent ==
    \A k \in 1 .. Len(results) :
        results[k] # NilResult =>
            /\ execBy[k - 1] # NilAgent
            /\ results[k].Agent = execBy[k - 1].Name
            /\ results[k].Task.Agent = execBy[k - 1]
            /\ (IsSequential \/ IsParallel) => results[k].Agent = o.tasks[k].Agent.Name
            /\ (IsPredefined /\ o.tasks[k].Agent # NilAgent) =>
                   results[k].Agent = o.tasks[k].Agent.Name
            /\ IsGoal => results[k].Agent = ExpectedStepAgent(plan[k]).Name

\* goal mode: the plan says "X", the result says bot
C17_Witness ==
    /\ IsGoal
    /\ o.agents = <<Bot, Chatbot>>
    /\ pc = "returned"
    /\ Len(ret.results) = 2
    /\ plan[2].AgentName = <<"X">>
    /\ ret.results[2].Agent = Bot.Name

\* C18: within one Kickoff, in every mode, each task or plan step is executed
\* at most once, the manager is asked at most once per task, and the planning
\* call is issued at most once, whatever fails.
C18_NoRetry ==
    /\ planCalls <= 1
    /\ \A idx \in Indices : execCount[idx] <= 1 /\ mgrCount[idx] <= 1
    /\ IsPredefined =>
         \A idx \in 0 .. (NTasks - 1) :
             o.tasks[idx + 1].Agent # NilAgent => mgrCount[idx] = 0

\* predefined-task mode: the second task was assigned by the manager and
\* failed; it was asked for and executed once
C18_Witness ==
    /\ IsPredefined
    /\ pc = "returned"
    /\ ret.err = TaskFailed(1)
    /\ mgrCount[1] = 1
    /\ execCount[1] = 1

\* C19: Sequential mode: a cancellation that arrives after task i's execution
\* was issued does not discard it: when the execution succeeds its result is
\* appended, and when i is the last task Kickoff returns all n results and a
\* nil error.
C19_CancelAfterIssueKeepsResult ==
    [][(IsSequential /\ pc = "seq_exec" /\ ctxDone /\ i \in execOk') =>
          /\ results' = Append(results, TaskResult(cur))
          /\ cur = o.tasks[i + 1]
          /\ (i + 1 = NTasks) =>
                /\ pc' = "returned"
                /\ ret' = Return(results', NoErr)
                /\ Len(ret'.results) = NTasks]_vars

\* cancelled during the last of three tasks: three results, no error
C19_Witness ==
    /\ IsSequential
    /\ NTasks = 3
    /\ ctxDone
    /\ pc = "returned"
    /\ ret.err = NoErr
    /\ Len(ret.results) = 3

SeqPcs == {"seq_check", "seq_exec"}
ParPcs == {"par_check", "par_wait"}
HierPcs == {"pre_check", "pre_select", "pre_exec", "goal_plan", "goal_check", "goal_exec"}

\* C20: New maps an unset Process to Sequential and keeps any other value;
\* Kickoff runs the one strategy of that value, and for a value that is none
\* of the three it returns an error and nil results and does no work.
C20_OneModePerInvocation ==
    /\ o.process = (IF cfg.Process = processUnset THEN Sequential ELSE cfg.Process)
    /\ pc \in SeqPcs => cfg.Process \in {processUnset, Sequential}
    /\ pc \in ParPcs => cfg.Process = Parallel
    /\ pc \in HierPcs => cfg.Process = Hierarchical
    /\ (\E idx \in DOMAIN unit : unit[idx] # "idle") => cfg.Process = Parallel
    /\ (planCalls > 0 \/ \E idx \in Indices : mgrCount[idx] > 0) =>
           cfg.Process = Hierarchical
    /\ (pc = "returned" /\ cfg.Process \in {processUnset, Sequential, Parallel, Hierarchical}) =>
           ret.err # UnknownProcess
    /\ cfg.Process \notin {processUnset, Sequential, Parallel, Hierarchical} =>
           /\ pc \in {"kickoff", "returned"}
           /\ pc = "returned" =>
                (ret.isNil /\ ret.results = <<>> /\ ret.err = UnknownProcess)
           /\ planCalls = 0
           /\ \A idx \in Indices : execCount[idx] = 0 /\ mgrCount[idx] = 0
           /\ \A idx \in DOMAIN unit : unit[idx] = "idle"

\* an unset Process ran the two tasks sequentially
C20_Witness ==
    /\ cfg.Process = processUnset
    /\ o.process = Sequential
    /\ pc = "returned"
    /\ ret.err = NoErr
    /\ Len(ret.results) = 2
    /\ execCount[0] = 1
    /\ execCount[1] = 1

\* indices whose Task.Execute was called on a task without a bound agent and
\* has returned
UnboundExecuted ==
    {idx \in Indices :
        /\ execCount[idx] > 0
        /\ execBy[idx] = NilAgent
        /\ ~(pc \in {"seq_exec", "pre_exec", "goal_exec"} /\ i = idx)}

\* C21: executing a task with no bound agent returns a validation error that
\* names the task's description, and calls no agent; in Sequential and
\* Parallel mode the unbound task at index i is reported as the failure of
\* task i, and no TaskResult is ever built from a task without an agent.
C21_UnboundTaskFails ==
    /\ \A idx \in Indices :
         (execCount[idx] > 0 /\ execBy[idx] = NilAgent) => agentCalls[idx] = 0
    /\ \A idx \in UnboundExecuted :
         /\ idx \notin execOk
         /\ execErr[idx].kind = "validation"
         /\ execErr[idx] = NoAgentAssigned(o.tasks[idx + 1])
         /\ Contains(execErr[idx].msg, o.tasks[idx + 1].Description)
         /\ IsSequential => (pc = "returned" /\ ret.err = TaskFailed(idx))
         /\ IsParallel =>
              /\ unit[idx] \in {"unlock", "exit", "done"} =>
                    /\ \E k \in 1 .. Len(errs) : errs[k] = TaskFailed(idx)
                    /\ results[idx + 1] = NilResult
              /\ (pc = "returned" /\ ret.err # CtxErr) =>
                    /\ ret.err.kind = "join"
                    /\ \E k \in 1 .. Len(ret.err.errs) : ret.err.errs[k] = TaskFailed(idx)
                    /\ ret.results[idx + 1] = NilResult
    /\ \A k \in 1 .. Len(results) :
         results[k] # NilResult => results[k].Task.Agent # NilAgent

\* Parallel mode: the unbound second task of three is reported as task 1,
\* next to two results
C21_Witness ==
    /\ IsParallel
    /\ NTasks = 3
    /\ o.tasks[2].Agent = NilAgent
    /\ pc = "returned"
    /\ ret.err = Joined(<<TaskFailed(1)>>)
    /\ execErr[1] = NoAgentAssigned(o.tasks[2])
    /\ agentCalls[1] = 0
    /\ agentCalls[0] = 1
    /\ ret.results[1] # NilResult
    /\ ret.results[3] # NilResult

\* the rendering the documentation describes, entry by entry from the front:
\* the 1-based number and the task description, the agent name, the result
\* text, the delimiter line
RECURSIVE Rendering(_, _)
Rendering(res, number) ==
    IF res = <<>> THEN <<>>
    ELSE <<"Task ", Digits[number], ": ">> \o Head(res).Task.Description
           \o <<"\n", "Agent: ">> \o Head(res).Agent
           \o <<"\n", "Result:\n">> \o Head(res).Result
           \o <<"\n", "------------------------\n\n">>
           \o Rendering(Tail(res), number + 1)

\* the number of places of s that hold the token tok
Occurrences(s, tok) == Cardinality({k \in 1 .. Len(s) : s[k] = tok})

\* C22: FormatResults is a pure function of its input: the rendering is the
\* header followed, for each result in input order, by its 1-based number
\* with the task description, the agent's name, the whole result text and
\* the delimiter line; calling it changes neither the results nor anything
\* else.
C22_FormatResults ==
    /\ [](output # NotFormatted =>
            /\ output.text =
                   <<"\n=== EXECUTION RESULTS ===\n\n">> \o Rendering(ret.results, 1)
            /\ Occurrences(output.text, "------------------------\n\n") = Len(ret.results)
            /\ Occurrences(output.text, "Task ") = Len(ret.results)
            /\ \A k \in 1 .. Len(ret.results) :
                 /\ Contains(output.text, <<"Task ", Digits[k], ": ">>
                                         \o ret.results[k].Task.Description \o <<"\n">>)
                 /\ Contains(output.text, <<"Agent: ">> \o ret.results[k].Agent \o <<"\n">>)
                 /\ Contains(output.text, <<"Result:\n">> \o ret.results[k].Result \o <<"\n">>))
    /\ [][output' # output =>
            /\ output = NotFormatted
            /\ output' = Formatted(FormatResults(ret.results))
            /\ ret' = ret
            /\ results' = results
            /\ o' = o]_vars

\* two results of goal mode, the second with a context block in its
\* description
C22_Witness ==
    /\ IsGoal
    /\ output # NotFormatted
    /\ Len(ret.results) = 2
    /\ ret.results[1].Agent # ret.results[2].Agent
    /\ Len(ret.results[2].Task.Description) > 1

\* the Process value the documentation gives a process name
NamedProcess(name) ==
    CASE name = "sequential" -> Sequential
      [] name = "parallel" -> Parallel
      [] name = "hierarchical" -> Hierarchical

\* C23: an orchestrator built from a configuration runs in the mode its
\* process field names, for sequential, parallel and hierarchical: it has
\* that Process, and Kickoff enters no other strategy.
C23_BuiltProcessHonoured ==
    (project # NoProject
        /\ project.Execution.Process \in {"sequential", "parallel", "hierarchical"}) =>
        /\ o.process = NamedProcess(project.Execution.Process)
        /\ pc \in SeqPcs => project.Execution.Process = "sequential"
        /\ pc \in ParPcs => project.Execution.Process = "parallel"

\* the longest reply the extractor is compared on
MaxReplyLen == 5

\* every reply of at most MaxReplyLen tokens: brackets, prose, plan steps
ExtractInputs ==
    UNION {[1 .. n -> {"[", "]", "p", "A"}] : n \in 0 .. MaxReplyLen}

\* opening minus closing brackets of s[a .. b]
Nesting(s, a, b) ==
    Cardinality({k \in a .. b : s[k] = "["}) - Cardinality({k \in a .. b : s[k] = "]"})

\* the payload of a reply: from its first "[" to the first later "]" at
\* which the nesting is back to zero; none without such a pair
Payload(s) ==
    LET opens == {k \in 1 .. Len(s) : s[k] = "["}
    IN  IF opens = {} THEN <<>>
        ELSE LET first == CHOOSE k \in opens : \A h \in opens : k <= h
                 ends == {k \in (first + 1) .. Len(s) :
                             s[k] = "]" /\ Nesting(s, first, k) = 0}
             IN  IF ends = {} THEN <<>>
                 ELSE SubSeq(s, first, CHOOSE k \in ends : \A h \in ends : k <= h)

ExtractAgrees == \A s \in ExtractInputs \cup PlanReplies : extractJSON(s) = Payload(s)

\* C24: the extractor returns exactly the text from the first "[" of the
\* reply to the first later "]" at which the bracket nesting is back to zero,
\* and nothing when there is no "[" or the first "[" is never closed; the
\* plan is parsed from that text alone, and the reply "Here is the plan:
\* [{...}]" with one step A for agent X gives one plan step named A assigned
\* to X.
C24_ExtractJSON ==
    /\ ExtractAgrees
    /\ (IsGoal /\ response # <<>>) =>
          /\ Payload(response) = <<>> =>
                /\ pc = "returned"
                /\ ret.err = PlanFailed("manager did not return valid JSON plan")
          /\ plan # <<>> =>
                /\ Len(Payload(response)) = 2 * Len(plan) + 1
                /\ \A k \in 1 .. Len(plan) : plan[k] = StepOf(Payload(response)[2 * k])
          /\ response = <<"p", "p", "[", "AX", "]">> =>
                /\ Payload(response) = <<"[", "AX", "]">>
                /\ Len(plan) = 1
                /\ plan[1].TaskDescription = <<"A">>
                /\ plan[1].AgentName = <<"X">>
          /\ response = <<"[", "A", "]", "p", "]">> => Len(plan) = 1
          /\ response = <<"[", "[", "A", "]", "]">> =>
                ret.err = PlanFailed("failed to parse execution plan")

\* the reply "Here is the plan: [{...}]" was planned and its step executed
C24_Witness ==
    /\ IsGoal
    /\ response = <<"p", "p", "[", "AX", "]">>
    /\ plan = <<StepOf("AX")>>
    /\ pc = "returned"
    /\ ret.err = NoErr
    /\ Len(ret.results) = 1

\* the states of the goal-mode machine, read off the position of Kickoff
GoalState ==
    CASE pc = "kickoff" -> "START"
      [] pc = "goal_plan" -> "PLAN_REQUESTED"
      [] pc = "goal_check" /\ i = 0 -> "PLAN_PARSED"
      [] pc = "goal_check" /\ i > 0 -> "STEP_DONE"
      [] pc = "goal_exec" -> "STEP_EXECUTING"
      [] pc = "returned" /\ ret.err = NoErr -> "COMPLETE"
      [] pc = "returned" /\ ret.err = CtxErr -> "CANCELLED"
      [] OTHER -> "FAILED"

\* C25: Hierarchical goal mode runs START -> PLAN_REQUESTED -> PLAN_PARSED ->
\* (STEP_EXECUTING -> STEP_DONE)* -> COMPLETE: no step is executed before a
\* non-empty plan is parsed; steps run one at a time in plan order, step j+1
\* only after step j succeeded; a failed manager call or an empty plan fails
\* the run with no step executed; a failing step fails it with no later step
\* executed; and the run completes only after every step succeeded, with one
\* result per step in plan order.
C25_GoalStateMachine ==
    /\ [][(IsGoal /\ ctxDone' = ctxDone) =>
            /\ pc = "kickoff" => pc' = "goal_plan"
            /\ pc = "goal_plan" =>
                 \/ /\ pc' = "goal_check"
                    /\ i' = 0
                    /\ Len(plan') > 0
                    /\ results' = <<>>
                 \/ PlanningFailed'
            /\ pc = "goal_check" =>
                 \/ pc' = "goal_exec" /\ i' = i /\ execCount'[i] = execCount[i] + 1
                 \/ pc' = "returned" /\ ret'.err = CtxErr /\ execCount' = execCount
            /\ pc = "goal_exec" =>
                 \/ /\ i \in execOk'
                    /\ i' = i + 1
                    /\ Len(results') = i + 1
                    /\ IF i + 1 = Len(plan)
                         THEN pc' = "returned" /\ ret'.err = NoErr
                         ELSE pc' = "goal_check"
                 \/ /\ i \notin execOk'
                    /\ pc' = "returned"
                    /\ ret'.err = StepFailed(i + 1)]_vars
    /\ [](IsGoal =>
            /\ \A k \in Indices :
                 execCount[k] > 0 =>
                     /\ Len(plan) > k
                     /\ \A j \in 0 .. (k - 1) : j \in execOk
                     /\ GoalState \notin {"START", "PLAN_REQUESTED"}
            /\ GoalState \in {"PLAN_PARSED", "STEP_DONE", "STEP_EXECUTING"} =>
                 /\ Len(plan) > i
                 /\ \A k \in Indices : k > i => execCount[k] = 0
                 /\ \A k \in Indices : k < i => k \in execOk
                 /\ execCount[i] = (IF GoalState = "STEP_EXECUTING" THEN 1 ELSE 0)
            /\ PlanningFailed => \A k \in Indices : execCount[k] = 0
            /\ (GoalState = "FAILED" /\ ~PlanningFailed) =>
                 /\ ret.err.kind = "step failed"
                 /\ \A k \in Indices : k >= ret.err.step => execCount[k] = 0
            /\ GoalState = "COMPLETE" =>
                 /\ Len(plan) > 0
                 /\ Len(ret.results) = Len(plan)
                 /\ \A k \in 1 .. Len(plan) :
                      /\ (k - 1) \in execOk
                      /\ HasPrefix(ret.results[k].Task.Description, plan[k].TaskDescription)
                      /\ ret.results[k].Task.ExpectedOutput = plan[k].ExpectedOutput)

\* a plan of two steps ran to completion, B before A
C25_Witness ==
    /\ IsGoal
    /\ GoalState = "COMPLETE"
    /\ Len(plan) = 2
    /\ plan[1].TaskDescription = <<"B">>
    /\ plan[2].TaskDescription = <<"A">>
    /\ execOk = {0, 1}

\* the units between mu.Lock() and mu.Unlock()
InCritical == {idx \in DOMAIN unit : unit[idx] \in {"write", "unlock"}}

\* C26: Parallel mode: the lock is held only by a unit that is writing its
\* result slot or appending to the error list; at most one unit is in that
\* critical section; no unit holds the lock while its task executes; and
\* every write to the result slice or the error list is made by the holder
\* of the lock, to its own slot or to the end of the list.
C26_LockDiscipline ==
    /\ [](IsParallel =>
            /\ Cardinality(mu) <= 1
            /\ mu = InCritical
            /\ Cardinality(InCritical) <= 1
            /\ \A idx \in DOMAIN unit :
                 unit[idx] \in {"idle", "exec", "lock", "exit", "done"} => idx \notin mu)
    /\ [][(IsParallel /\ pc # "kickoff" /\ (results' # results \/ errs' # errs)) =>
            \E idx \in DOMAIN unit :
                /\ mu = {idx}
                /\ mu' = {idx}
                /\ unit[idx] = "write"
                /\ unit'[idx] = "unlock"
                /\ \/ /\ errs' = errs
                      /\ \A k \in 1 .. Len(results) : k # idx + 1 => results'[k] = results[k]
                   \/ /\ results' = results
                      /\ Len(errs') = Len(errs) + 1
                      /\ SubSeq(errs', 1, Len(errs)) = errs]_vars

\* unit 0 writes under the lock, unit 1 waits for it, unit 2 still executes
C26_Witness ==
    /\ IsParallel
    /\ NTasks = 3
    /\ mu = {0}
    /\ unit[0] = "write"
    /\ unit[1] = "lock"
    /\ unit[2] = "exec"

\* the Task values the run can reach: the caller's, the one in execution,
\* those the results point to
ReachableTasks ==
    {cfg.Tasks[k] : k \in 1 .. Len(cfg.Tasks)}
        \cup {o.tasks[k] : k \in 1 .. NTasks}
        \cup (IF pc = "pre_exec" THEN {cur} ELSE {})
        \cup {results[k].Task : k \in {j \in 1 .. Len(results) : results[j] # NilResult}}

\* C27: Hierarchical predefined-task mode never modifies the caller's tasks:
\* for an unbound task a new task value bound to the selected agent is
\* created and executed; the task in the input list stays unbound; and the
\* TaskResult points to the new task, whose description and expected output
\* are the original's.
C27_InputTasksUntouched ==
    IsPredefined =>
        /\ o.tasks = cfg.Tasks
        /\ \A t1, t2 \in ReachableTasks : t1.ptr = t2.ptr => t1 = t2
        /\ pc = "pre_exec" =>
             IF o.tasks[i + 1].Agent = NilAgent
               THEN /\ cur.ptr \notin {o.tasks[k].ptr : k \in 1 .. NTasks}
                    /\ cur.Agent = execBy[i]
                    /\ cur.Agent # NilAgent
               ELSE cur = o.tasks[i + 1]
        /\ \A k \in 1 .. Len(results) :
             IF o.tasks[k].Agent = NilAgent
               THEN /\ results[k].Task.ptr \notin {o.tasks[j].ptr : j \in 1 .. NTasks}
                    /\ results[k].Task.Agent = execBy[k - 1]
                    /\ results[k].Task.Agent # NilAgent
                    /\ results[k].Task.Description = o.tasks[k].Description
                    /\ results[k].Task.ExpectedOutput = o.tasks[k].ExpectedOutput
               ELSE results[k].Task = o.tasks[k]

\* the second of three tasks was unbound: its result points to a new task
\* with the same description and expected output, the input is still unbound
C27_Witness ==
    /\ IsPredefined
    /\ NTasks = 3
    /\ pc = "returned"
    /\ ret.err = NoErr
    /\ o.tasks[2].Agent = NilAgent
    /\ o.tasks[2].ExpectedOutput = <<"e">>
    /\ ret.results[2].Task.ptr > NTasks
    /\ ret.results[2].Task.ExpectedOutput = <<"e">>
    /\ ret.results[2].Task.Agent = Bot
    /\ ret.results[1].Task = o.tasks[1]

\* C28: Parallel mode terminates: under fair scheduling, with every task
\* execution returning, Kickoff returns; and when the context is never
\* cancelled it returns through the join, with every unit finished, the
\* lock free and the WaitGroup at zero.
C28_ParallelTerminates ==
    /\ IsParallel => <>(pc = "returned")
    /\ (IsParallel /\ []~ctxDone) =>
          <>(/\ pc = "returned"
             /\ ret.err # CtxErr
             /\ \A idx \in DOMAIN unit : unit[idx] = "done"
             /\ wg = 0
             /\ mu = MuFree)

\* three units went through the lock, two of them with an error, and the
\* join was passed
C28_Witness ==
    /\ IsParallel
    /\ NTasks = 3
    /\ ~ctxDone
    /\ pc = "returned"
    /\ \A idx \in DOMAIN unit : unit[idx] = "done"
    /\ Len(errs) = 2
    /\ wg = 0
    /\ mu = MuFree

GoalPcs == {"goal_plan", "goal_check", "goal_exec"}
PrePcs == {"pre_check", "pre_select", "pre_exec"}

\* C29: Hierarchical mode: with a non-empty task list, a goal or none,
\* predefined-task assignment is used and the goal is ignored: no planning
\* call is issued, no plan exists, and what is executed are the input tasks;
\* goal decomposition runs only when the task list is empty.
C29_TasksBeforeGoal ==
    o.process = Hierarchical =>
        /\ NTasks > 0 =>
             /\ pc \notin GoalPcs
             /\ planCalls = 0
             /\ plan = <<>>
             /\ previousResults = <<>>
             /\ allocs = SumOver(mgrCount, {k \in Indices : k \in execOk \/ execCount[k] > 0})
             /\ pc = "pre_exec" => cur.Description = o.tasks[i + 1].Description
             /\ \A k \in 1 .. Len(results) :
                  results[k].Task.Description = o.tasks[k].Description
        /\ (pc \in GoalPcs \/ planCalls > 0 \/ plan # <<>>) =>
             /\ NTasks = 0
             /\ o.goal # <<>>
        /\ pc \in PrePcs => NTasks > 0

\* two tasks and a goal: both tasks ran, one through the manager, and no plan
\* was asked for
C29_Witness ==
    /\ IsPredefined
    /\ o.goal # <<>>
    /\ NTasks = 2
    /\ pc = "returned"
    /\ ret.err = NoErr
    /\ Len(ret.results) = 2
    /\ planCalls = 0
    /\ SumOver(mgrCount, Indices) = 1

ContextHeader == "\n\nContext from previous tasks:\n"

\* the entries of steps k .. Len(res), from the front: each made of the
\* plan's description of its step, an agent name (the plan's when
\* planName[k], else the result's) and the result text
RECURSIVE EntriesFrom(_, _, _, _)
EntriesFrom(steps, res, planName, k) ==
    IF k > Len(res) THEN <<>>
    ELSE <<"\n--- ">> \o steps[k].TaskDescription
           \o <<" (by ">> \o (IF planName[k] THEN steps[k].AgentName ELSE res[k].Agent)
           \o <<") ---\n">> \o res[k].Result \o <<"\n">>
           \o EntriesFrom(steps, res, planName, k + 1)

\* C30: Hierarchical goal mode: after k steps have completed the accumulated
\* previous-results text holds exactly k entries, one per completed step in
\* completion order, each built from the plan's description of its step and
\* not from the description it was executed with; so the context block given
\* to a later step holds one entry per earlier step and no context block of
\* an earlier step.
C30_ContextAccumulator ==
    IsGoal =>
        /\ Occurrences(previousResults, "\n--- ") = Len(results)
        /\ Len(results) = Cardinality(execOk)
        /\ \E planName \in [1 .. Len(results) -> BOOLEAN] :
             previousResults = EntriesFrom(plan, results, planName, 1)
        /\ Occurrences(previousResults, ContextHeader) = 0
        /\ pc = "goal_exec" =>
             /\ Occurrences(cur.Description, ContextHeader) =
                    (IF plan[i + 1].UseContext /\ i > 0 THEN 1 ELSE 0)
             /\ Occurrences(cur.Description, "\n--- ") =
                    (IF plan[i + 1].UseContext /\ i > 0 THEN i ELSE 0)

\* both steps asked for context: the second was executed with a context
\* block, and the accumulator holds two entries and no block
C30_Witness ==
    /\ IsGoal
    /\ Len(plan) = 2
    /\ plan[1].UseContext
    /\ plan[2].UseContext
    /\ pc = "returned"
    /\ ret.err = NoErr
    /\ Occurrences(ret.results[2].Task.Description, ContextHeader) = 1
    /\ Occurrences(previousResults, "\n--- ") = 2
    /\ Occurrences(previousResults, ContextHeader) = 0

\* nothing was executed and the manager was not asked to select
NoWorkDone ==
    /\ \A idx \in Indices : execCount[idx] = 0 /\ mgrCount[idx] = 0
    /\ execOk = {}
    /\ allocs = 0

\* C31: Hierarchical mode checks the context before each task (predefined
\* mode) and before each plan step (goal mode), and nowhere else: not before
\* the planning call, nor while a manager call or an execution is in flight.
\* With the context cancelled when Kickoff is called, predefined mode
\* returns empty results and the cancellation error with no manager call;
\* goal mode still issues the planning call and, when a plan is obtained,
\* returns empty results and the cancellation error with no step executed.
C31_HierCancellationPoints ==
    /\ [][(IsPredefined /\ ctxDone) =>
            /\ pc = "kickoff" =>
                 /\ pc' = "pre_check"
                 /\ i' = 0
                 /\ results' = <<>>
                 /\ NoWorkDone'
                 /\ planCalls' = 0
            /\ pc = "pre_check" =>
                 /\ pc' = "returned"
                 /\ ret' = Return(results, CtxErr)
                 /\ Len(ret'.results) = i
                 /\ mgrCount' = mgrCount
                 /\ execCount' = execCount
            /\ pc \in {"pre_select", "pre_exec"} =>
                 /\ pc' = "returned" => ret'.err # CtxErr
                 /\ pc' # "returned" => pc' \in {"pre_exec", "pre_check"}]_vars
    /\ [][(IsGoal /\ ctxDone) =>
            /\ pc = "kickoff" =>
                 /\ pc' = "goal_plan"
                 /\ planCalls' = planCalls + 1
                 /\ ret' = NotReturned
            /\ pc = "goal_plan" =>
                 /\ pc' = "returned" => PlanningFailed'
                 /\ pc' # "returned" =>
                      /\ pc' = "goal_check"
                      /\ Len(plan') > 0
                      /\ i' = 0
                      /\ results' = <<>>
            /\ pc = "goal_check" =>
                 /\ pc' = "returned"
                 /\ ret' = Return(results, CtxErr)
                 /\ Len(ret'.results) = i
                 /\ execCount' = execCount
            /\ pc = "goal_exec" => (pc' = "returned" => ret'.err # CtxErr)]_vars
    /\ []((IsPredefined /\ ctxDone /\ pc = "pre_check" /\ i = 0) =>
            /\ results = <<>>
            /\ NoWorkDone
            /\ planCalls = 0)
    /\ []((IsGoal /\ pc \in {"goal_plan", "goal_check"} /\ i = 0) =>
            /\ planCalls = 1
            /\ NoWorkDone
            /\ pc = "goal_check" => results = <<>>)
    /\ []((o.process = Hierarchical /\ pc = "returned" /\ ret.err = CtxErr) =>
            /\ IsPredefined \/ (IsGoal /\ Len(plan) > 0 /\ planCalls = 1)
            /\ Len(ret.results) = i
            /\ \A idx \in Indices : idx >= i => execCount[idx] = 0 /\ mgrCount[idx] = 0)

\* goal mode: a plan of two steps was obtained under a cancelled context,
\* and Kickoff returned no results and the cancellation error
C31_Witness ==
    /\ IsGoal
    /\ ctxDone
    /\ pc = "returned"
    /\ ret = Return(<<>>, CtxErr)
    /\ ~ret.isNil
    /\ planCalls = 1
    /\ Len(plan) = 2
    /\ NoWorkDone

====
